---- MODULE Spec2Model ----
(***************************************************************************)
(* Attendance subsystem of class-craft-backend:                            *)
(*   controllers/attendanceController.js  (startOfUTC, access guard,       *)
(*   saveAttendance, getAttendanceHistory) over the Attendance, Class and  *)
(*   Student collections.                                                  *)
(*                                                                         *)
(* Time values are counted in ticks since the epoch, TicksPerDay ticks to  *)
(* a UTC day (JavaScript counts milliseconds, 86400000 to a day).          *)
(* Marks carry studentId and status; studentName and enrollNo are passed   *)
(* through by the code unread and are left out.                            *)
(***************************************************************************)
EXTENDS Integers, Sequences, FiniteSets, TLC

VARIABLES classes, students, attendance, now, resp, note, procs, norm, users, profile

vars == <<classes, students, attendance, now, resp, note, procs, norm, users, profile>>

(***************************************************************************)
(* Bounds of the model.                                                    *)
(***************************************************************************)
TicksPerDay == 2
MaxSessions == 2
MaxAwards == 2

(***************************************************************************)
(* JavaScript Date: the proleptic Gregorian calendar over time values.     *)
(***************************************************************************)
\* The time value of an Invalid Date (no day number is this small).
NaN == -999999999

\* MakeDay: days since 1970-01-01 of the civil date (y, m, d), m in 1..12.
DaysFromCivil(y, m, d) ==
  LET yy  == IF m <= 2 THEN y - 1 ELSE y
      era == yy \div 400
      yoe == yy - era * 400
      mp  == IF m > 2 THEN m - 3 ELSE m + 9
      doy == (153 * mp + 2) \div 5 + d - 1
      doe == yoe * 365 + yoe \div 4 - yoe \div 100 + doy
  IN  era * 146097 + doe - 719468

\* YearFromTime, MonthFromTime, DateFromTime of a day number.
CivilFromDays(z) ==
  LET zz  == z + 719468
      era == zz \div 146097
      doe == zz - era * 146097
      yoe == (doe - doe \div 1460 + doe \div 36524 - doe \div 146096) \div 365
      doy == doe - (365 * yoe + yoe \div 4 - yoe \div 100)
      mp  == (5 * doy + 2) \div 153
      d   == doy - (153 * mp + 2) \div 5 + 1
      m   == IF mp < 10 THEN mp + 3 ELSE mp - 9
      y   == yoe + era * 400 + (IF m <= 2 THEN 1 ELSE 0)
  IN  [y |-> y, m |-> m, d |-> d]

\* Day(t): the day number of a time value.
Day(t) == t \div TicksPerDay

\* The UTC fields of the Date with time value t: getUTCFullYear(), getUTCMonth()
\* (0..11) and getUTCDate().
UTCFields(t) ==
  LET c == CivilFromDays(Day(t))
  IN  [year |-> c.y, month |-> c.m - 1, date |-> c.d]

\* Date.UTC(year, month, date, 0, 0, 0, 0): a year in 0..99 means 1900 + year.
DateUTC(y, m0, d) ==
  LET yr == IF y >= 0 /\ y <= 99 THEN 1900 + y ELSE y
  IN  DaysFromCivil(yr, m0 + 1, d) * TicksPerDay

(***************************************************************************)
(* A date as a request carries it: absent, a JSON number (a time value),   *)
(* an ISO-8601 string (civil date and time of day, UTC), or a string that  *)
(* does not parse.                                                         *)
(***************************************************************************)
NoDate == [kind |-> "none"]
NumDate(t) == [kind |-> "num", t |-> t]
IsoDate(y, m, d, h) == [kind |-> "iso", y |-> y, m |-> m, d |-> d, h |-> h]
BadDate == [kind |-> "bad"]
\* a Date object with time value t
DateObj(t) == [kind |-> "date", t |-> t]

\* JavaScript truthiness of a date value: undefined, "" and the number 0 are falsy.
Falsy(dateLike) ==
  \/ dateLike.kind = "none"
  \/ dateLike.kind = "num" /\ dateLike.t = 0

\* new Date(x).getTime()
TimeValue(dateLike) ==
  CASE dateLike.kind \in {"num", "date"} -> dateLike.t
    [] dateLike.kind = "iso" ->
         DaysFromCivil(dateLike.y, dateLike.m, dateLike.d) * TicksPerDay + dateLike.h
    [] OTHER -> NaN

\* startOfUTC(dateLike) evaluated when Date.now() is clock.
startOfUTC(dateLike, clock) ==
  LET t == TimeValue(IF Falsy(dateLike) THEN NumDate(clock) ELSE dateLike)
  IN  IF t = NaN THEN NaN
      ELSE LET d == UTCFields(t) IN DateUTC(d.year, d.month, d.date)

(***************************************************************************)
(* The collections.                                                        *)
(*   classes    : the Class documents in natural order  (_id, name,        *)
(*                teacher)                                                 *)
(*   students   : student _id -> classId of the Student document, or Gone  *)
(*   attendance : the Attendance documents in natural order (className,    *)
(*                date, dateOnlyUTC, records)                              *)
(*   now        : Date.now()                                               *)
(*   resp       : the response last sent (op, status and, for a history    *)
(*                read, date/total/present/absent of the body)             *)
(*   note       : which branch of the handler produced resp                *)
(***************************************************************************)
Gone == "gone"
NoClass == [_id |-> "", name |-> "", teacher |-> ""]
\* req.user when no middleware has set it
NoUser == [id |-> "", role |-> ""]
Admin == [id |-> "u0", role |-> "admin"]
Teacher1 == [id |-> "t1", role |-> "teacher"]
Teacher2 == [id |-> "t2", role |-> "teacher"]

StudentIds == {"s1", "s2", "s3"}

Mark(sid, st) == [studentId |-> sid, status |-> st]

\* mongoose.Types.ObjectId.isValid(id): "bad!" stands for a malformed id.
IsValidObjectId(id) == id \notin {"", "bad!"}

\* The Student document with this _id: its classId, or Gone.
StudentClass(sid) == IF sid \in DOMAIN students THEN students[sid] ELSE Gone

FirstIndex(S) == CHOOSE i \in S : \A j \in S : i <= j

\* Class.findOne({ name }): the first match in natural order, or null.
FindClassByName(name) ==
  LET idx == {i \in 1..Len(classes) : classes[i].name = name}
  IN  IF idx = {} THEN NoClass ELSE classes[FirstIndex(idx)]

\* A guard that only looks the class up.
ensureAccessToClassByName_anyTeacher(className, user) ==
  IF FindClassByName(className) = NoClass THEN 404 ELSE 200

\* The status ensureAccessToClassByName ends with: 200 when it returns cls.
ensureAccessToClassByName(className, user) ==
  LET cls == FindClassByName(className)
  IN  IF cls = NoClass THEN 404
      ELSE IF user # NoUser /\ user.role = "teacher" /\ cls.teacher # user.id THEN 403
      ELSE 200

(***************************************************************************)
(* saveAttendance                                                          *)
(***************************************************************************)
\* First validation loop: a record without studentId or status, or with a
\* studentId that is no ObjectId.
BadShape(r) ==
  \/ r.studentId = ""
  \/ r.status = ""
  \/ ~IsValidObjectId(r.studentId)

\* A check that the student exists, without comparing its class.
NotMember_existsOnly(r, roster, cls) == roster[r.studentId] = Gone

\* Second validation loop, over the students read by Student.find (roster:
\* student _id -> classId): the student is missing, or is not of the class.
NotMember(r, roster, cls) ==
  \/ roster[r.studentId] = Gone
  \/ cls = NoClass
  \/ roster[r.studentId] # cls._id

\* Student.find({ _id: { $in: studentIds } }) as a map from the ids asked for.
FindStudents(records) ==
  [sid \in {records[i].studentId : i \in 1..Len(records)} |-> StudentClass(sid)]

\* The documents the upsert's filter { className, dateOnlyUTC } matches.
Matches(att, className, day) ==
  {i \in 1..Len(att) : att[i].className = className /\ att[i].dateOnlyUTC = day}

\* The $set of the upsert.
SessionDoc(className, day, records) ==
  [className |-> className, date |-> day, dateOnlyUTC |-> day, records |-> records]

\* Which kind of write the upsert was, given the records it replaced.
WriteNote(old, records) ==
  IF old = records THEN "same"
  ELSE IF \E i \in 1..Len(old) : \A j \in 1..Len(records) : records[j] # old[i]
       THEN "dropped"
       ELSE "replaced"

\* A write that inserts without looking for the day's document.
findOneAndUpdate_insertOnly(att, className, day, records) ==
  {[attendance |-> Append(att, SessionDoc(className, day, records)), note |-> "created"]}

\* A write that pushes the marks onto the day's document instead of setting them.
findOneAndUpdate_push(att, className, day, records) ==
  LET m == Matches(att, className, day)
  IN  IF m = {}
      THEN {[attendance |-> Append(att, SessionDoc(className, day, records)),
             note |-> "created"]}
      ELSE {[attendance |->
               [att EXCEPT ![i] = SessionDoc(className, day, att[i].records \o records)],
             note |-> WriteNote(att[i].records, records)] : i \in m}

\* A write whose filter names the class alone: it sets the marks of every
\* stored session of the class.
findOneAndUpdate_classWide(att, className, day, records) ==
  LET m == Matches(att, className, day)
  IN  IF m = {}
      THEN {[attendance |-> Append(att, SessionDoc(className, day, records)),
             note |-> "created"]}
      ELSE {[attendance |->
               [k \in 1..Len(att) |->
                  IF att[k].className = className
                  THEN SessionDoc(className, att[k].dateOnlyUTC, records) ELSE att[k]],
             note |-> WriteNote(att[i].records, records)] : i \in m}

\* Attendance.findOneAndUpdate(filter, { $set }, { upsert: true }) run to
\* completion with no other write in between.
findOneAndUpdate(att, className, day, records) ==
  LET m == Matches(att, className, day)
      doc == SessionDoc(className, day, records)
  IN  IF m = {}
      THEN {[attendance |-> Append(att, doc), note |-> "created"]}
      ELSE {[attendance |-> [att EXCEPT ![i] = doc],
             note |-> WriteNote(att[i].records, records)] : i \in m}

\* The validation that precedes the upsert: the status of the early return,
\* or 200 when the handler reaches the upsert.
SaveCheck(req, roster, day) ==
  LET cls == FindClassByName(req.className)
      access == ensureAccessToClassByName(req.className, req.user)
      recs == req.records
      shape == {i \in 1..Len(recs) : BadShape(recs[i])}
      member == {i \in 1..Len(recs) : NotMember(recs[i], roster, cls)}
  IN  IF req.className = "" \/ ~req.isArray THEN [status |-> 400, note |-> "missing"]
      ELSE IF access # 200 THEN [status |-> access, note |-> "access"]
      ELSE IF shape # {} THEN [status |-> 400, note |-> "shape"]
      ELSE IF member # {} THEN
        [status |-> 400,
         note |-> IF roster[recs[FirstIndex(member)].studentId] = Gone
                  THEN "notFound" ELSE "notInClass"]
      ELSE IF day = NaN THEN [status |-> 500, note |-> "cast"]
      ELSE [status |-> 200, note |-> "ok"]

\* A handler that upserts as soon as the access check has passed and
\* validates the records afterwards.
SaveOutcomes_writeFirst(req, att, clock) ==
  LET day == startOfUTC(req.date, clock)
      chk == SaveCheck(req, FindStudents(req.records), day)
  IN  IF chk.note \in {"missing", "access"} \/ day = NaN
      THEN {[status |-> chk.status, note |-> chk.note, attendance |-> att, day |-> day]}
      ELSE {[status |-> chk.status, note |-> IF chk.status = 200 THEN w.note ELSE chk.note,
             attendance |-> w.attendance, day |-> day] :
              w \in findOneAndUpdate(att, req.className, day, req.records)}

\* The outcomes of one saveAttendance call run to completion on the store att
\* at time clock: the status sent and the store left.
SaveOutcomes(req, att, clock) ==
  LET day == startOfUTC(req.date, clock)
      chk == SaveCheck(req, FindStudents(req.records), day)
  IN  IF chk.status # 200
      THEN {[status |-> chk.status, note |-> chk.note, attendance |-> att, day |-> day]}
      ELSE {[status |-> 200, note |-> w.note, attendance |-> w.attendance, day |-> day] :
              w \in findOneAndUpdate(att, req.className, day, req.records)}

NoBody == [date |-> NaN, total |-> 0, present |-> 0, absent |-> 0]

SaveAttendance(req) ==
  \E out \in SaveOutcomes(req, attendance, now) :
    /\ Len(out.attendance) <= MaxSessions
    /\ attendance' = out.attendance
    /\ resp' = [op |-> "save", status |-> out.status] @@ NoBody
    /\ note' = out.note
    /\ UNCHANGED <<classes, students, now, procs, norm, users, profile>>

(***************************************************************************)
(* getAttendanceHistory                                                    *)
(***************************************************************************)
Count(records, st) == Cardinality({i \in 1..Len(records) : records[i].status = st})

ErrorBody(st) ==
  [status |-> st, className |-> "", date |-> NaN, total |-> 0, present |-> 0,
   absent |-> 0, records |-> <<>>, note |-> "error"]

\* The explicit empty shape (the echo of the date asked for is left out).
EmptyBody(className) ==
  [status |-> 200, className |-> className, date |-> NaN, total |-> 0, present |-> 0,
   absent |-> 0, records |-> <<>>, note |-> "empty"]

\* The body built from a stored session: the marks numbered from 1 in stored
\* order, and the counts taken from them.
SessionBody(session) ==
  LET records == [i \in 1..Len(session.records) |->
                    [id |-> i, studentId |-> session.records[i].studentId,
                     status |-> session.records[i].status]]
  IN  [status |-> 200, className |-> session.className, date |-> session.date,
       total |-> Len(records), present |-> Count(records, "Present"),
       absent |-> Count(records, "Absent"), records |-> records, note |-> "found"]

\* A lookup that leaves the sort out: the first session of the class.
LatestOfClass_noSort(att, className) ==
  LET cs == {i \in 1..Len(att) : att[i].className = className}
  IN  {i \in cs : \A j \in cs : i <= j}

\* Attendance.findOne({ className }).sort({ dateOnlyUTC: -1 })
LatestOfClass(att, className) ==
  LET cs == {i \in 1..Len(att) : att[i].className = className}
  IN  {i \in cs : \A j \in cs : att[j].dateOnlyUTC <= att[i].dateOnlyUTC}

\* The documents the handler's findOne may return: by day when a date is
\* given, the latest of the class otherwise.
HistoryLookup(q, att, clock) ==
  IF ~Falsy(q.date)
  THEN Matches(att, q.className, startOfUTC(q.date, clock))
  ELSE LatestOfClass(att, q.className)

\* A handler that answers 404 when it finds no session.
HistoryResponses_notFound(q, att, clock) ==
  LET access == ensureAccessToClassByName(q.className, q.user)
      found == HistoryLookup(q, att, clock)
  IN  IF q.className = "" THEN {ErrorBody(400)}
      ELSE IF access # 200 THEN {ErrorBody(access)}
      ELSE IF ~Falsy(q.date) /\ startOfUTC(q.date, clock) = NaN THEN {ErrorBody(500)}
      ELSE IF found = {} THEN {ErrorBody(404)}
      ELSE {SessionBody(att[i]) : i \in found}

\* The responses getAttendanceHistory may send for the query q.
HistoryResponses(q, att, clock) ==
  LET access == ensureAccessToClassByName(q.className, q.user)
      found == HistoryLookup(q, att, clock)
  IN  IF q.className = "" THEN {ErrorBody(400)}
      ELSE IF access # 200 THEN {ErrorBody(access)}
      ELSE IF ~Falsy(q.date) /\ startOfUTC(q.date, clock) = NaN THEN {ErrorBody(500)}
      ELSE IF found = {} THEN {EmptyBody(q.className)}
      ELSE {SessionBody(att[i]) : i \in found}

GetAttendanceHistory(q) ==
  \E r \in HistoryResponses(q, attendance, now) :
    /\ resp' = [op |-> "history", status |-> r.status, date |-> r.date,
                total |-> r.total, present |-> r.present, absent |-> r.absent]
    /\ note' = IF r.note = "error" THEN "error"
               ELSE IF Falsy(q.date) THEN "latest-" \o r.note ELSE "day-" \o r.note
    /\ UNCHANGED <<classes, students, attendance, now, procs, norm, users, profile>>

(***************************************************************************)
(* The clock, and the state after start-up.                                *)
(***************************************************************************)
\* 2025-11-10, the day the clock starts in, at its last tick.
Today == DaysFromCivil(2025, 11, 10)
NowStart == Today * TicksPerDay + (TicksPerDay - 1)

\* The clock runs from the last tick of Today into the next day.
Tick ==
  /\ Day(now) = Today
  /\ now' = now + 1
  /\ UNCHANGED <<classes, students, attendance, resp, note, procs, norm, users, profile>>

ProcIds == {"p1", "p2"}
IdleReq == [className |-> "", date |-> NoDate, isArray |-> FALSE, records |-> <<>>, user |-> NoUser]
IdleProc ==
  [pc |-> "idle", req |-> IdleReq, day |-> NaN, roster |-> <<>>, match |-> 0, status |-> 0,
   log |-> <<>>]
NoNorm == [a |-> NoDate, b |-> NoDate, ca |-> NaN, cb |-> NaN, cca |-> NaN, done |-> FALSE]

\* The User documents: two admins and a teacher.
UserIds == {"u0", "u1", "t1"}
\* The Student document of user u7: the fields quest completion touches.
NoProfile == [xp |-> 0, completedQuests |-> <<>>]

Init ==
  /\ classes = << [_id |-> "c1", name |-> "8A", teacher |-> "t1", studentsLimit |-> 2],
                  [_id |-> "c2", name |-> "8B", teacher |-> "t2", studentsLimit |-> 2] >>
  /\ students = [s \in StudentIds |-> IF s = "s3" THEN "c2" ELSE "c1"]
  /\ attendance = <<>>
  /\ now = NowStart
  /\ resp = [op |-> "none", status |-> 0] @@ NoBody
  /\ note = ""
  /\ procs = [p \in ProcIds |-> IdleProc]
  /\ norm = NoNorm
  /\ users = [u \in UserIds |-> IF u = "t1" THEN "teacher" ELSE "admin"]
  /\ profile = NoProfile

(***************************************************************************)
(* Spec: the attendance requests served one at a time.                     *)
(***************************************************************************)
s1P == Mark("s1", "Present")
s1A == Mark("s1", "Absent")
s2A == Mark("s2", "Absent")
s3P == Mark("s3", "Present")

RecLists == { <<>>, <<s1P, s2A>>, <<s1A>>, <<s3P>> }
SaveDates == { NoDate, NumDate(0), IsoDate(2025, 11, 10, 0), IsoDate(2025, 11, 10, 1),
               IsoDate(2025, 11, 11, 0), BadDate }
HistDates == { NoDate, IsoDate(2025, 11, 10, 0), IsoDate(2025, 11, 10, 1),
               IsoDate(2025, 11, 11, 1), IsoDate(1970, 1, 1, 0), BadDate }
Names == {"8A", "8B"}
Users == {Admin}

SaveReqs ==
  [className : Names, date : SaveDates, isArray : {TRUE}, records : RecLists, user : Users]
HistReqs == [className : Names, date : HistDates, user : Users]

Next ==
  \/ \E req \in SaveReqs : SaveAttendance(req)
  \/ \E q \in HistReqs : GetAttendanceHistory(q)
  \/ Tick

Spec == Init /\ [][Next]_vars

(***************************************************************************)
(* Properties of Spec.                                                     *)
(***************************************************************************)
SameKey(a, b) == a.className = b.className /\ a.dateOnlyUTC = b.dateOnlyUTC

\* C1: after any sequence of saves served one at a time, the store holds at
\* most one session per class name and normalized UTC day (each stored day is
\* a UTC midnight).
OneSessionPerClassDay ==
  /\ \A i, j \in 1..Len(attendance) : SameKey(attendance[i], attendance[j]) => i = j
  /\ \A i \in 1..Len(attendance) :
       attendance[i].dateOnlyUTC = Day(attendance[i].dateOnlyUTC) * TicksPerDay

\* A save has just replaced the session of a day while another session is stored.
OneSessionWitness ==
  /\ resp.op = "save" /\ resp.status = 200
  /\ note \in {"replaced", "dropped"}
  /\ Len(attendance) >= 2

\* C3: in every reachable store (so also right after a save of R1), a
\* successful save of R2 for a class and day leaves exactly one session for
\* that class and day, and its records are exactly R2.
SaveReplacesRecords ==
  \A req \in SaveReqs : \A out \in SaveOutcomes(req, attendance, now) :
    out.status = 200 =>
      LET m == Matches(out.attendance, req.className, out.day)
      IN  /\ Cardinality(m) = 1
          /\ \A i \in m : out.attendance[i].records = req.records

\* A save has just replaced records holding a mark that the new records lack.
SaveReplacesWitness ==
  /\ resp.op = "save" /\ resp.status = 200
  /\ note = "dropped"

\* Keys, days and records of the stored sessions.
StoredView(att) ==
  [i \in 1..Len(att) |->
     [className |-> att[i].className, dateOnlyUTC |-> att[i].dateOnlyUTC,
      records |-> att[i].records]]

\* The times a second submission may be served at.
LaterClocks == {c \in now..(now + 1) : Day(c) <= Today + 1}

\* C4 as stated: for every payload, the store after two successful
\* submissions in a row equals the store after one.
SaveTwiceEqualsOnce ==
  \A req \in SaveReqs : \A later \in LaterClocks :
    \A once \in SaveOutcomes(req, attendance, now) :
      once.status = 200 =>
        \A twice \in SaveOutcomes(req, once.attendance, later) :
          twice.status = 200 => StoredView(twice.attendance) = StoredView(once.attendance)

\* C4 as amended: the store after two successful submissions of a payload
\* equals the store after one whenever both resolve to the same normalized
\* day.
SaveTwiceEqualsOnceSameDay ==
  \A req \in SaveReqs : \A later \in LaterClocks :
    \A once \in SaveOutcomes(req, attendance, now) :
      once.status = 200 =>
        \A twice \in SaveOutcomes(req, once.attendance, later) :
          (twice.status = 200 /\ twice.day = once.day) =>
             StoredView(twice.attendance) = StoredView(once.attendance)

\* A save has just written a day's session again with the records it held.
SaveTwiceWitness ==
  /\ resp.op = "save" /\ resp.status = 200
  /\ note = "same"
  /\ \E i \in 1..Len(attendance) : attendance[i].records # <<>>

\* C6: after a successful save of R for class c with date t, a history read
\* for c with any date of the same UTC calendar day as t returns total = |R|,
\* the Present and Absent counts of R, and the marks of R in order.
HasDate(d) == d.kind \in {"num", "iso"}

ReadAfterSave ==
  \A req \in SaveReqs : \A q \in HistReqs :
    ( /\ HasDate(req.date) /\ HasDate(q.date)
      /\ q.className = req.className
      /\ Day(TimeValue(q.date)) = Day(TimeValue(req.date)) ) =>
      \A out \in SaveOutcomes(req, attendance, now) :
        out.status = 200 =>
          \A r \in HistoryResponses(q, out.attendance, now) :
            /\ r.status = 200
            /\ r.total = Len(req.records)
            /\ r.present = Count(req.records, "Present")
            /\ r.absent = Count(req.records, "Absent")
            /\ Len(r.records) = Len(req.records)
            /\ \A k \in 1..Len(req.records) :
                 /\ r.records[k].studentId = req.records[k].studentId
                 /\ r.records[k].status = req.records[k].status

\* C7: a history read of an accessible class finds no session for the day
\* asked for (or, without a date, no session of the class at all) and answers
\* 200 with total, present and absent 0 and no records.
NoSessionFor(q) ==
  \A i \in 1..Len(attendance) :
    attendance[i].className = q.className =>
      /\ ~Falsy(q.date)
      /\ attendance[i].dateOnlyUTC # startOfUTC(q.date, now)

EmptyHistoryIsSuccess ==
  \A q \in HistReqs :
    ( /\ ensureAccessToClassByName(q.className, q.user) = 200
      /\ q.date.kind # "bad"
      /\ NoSessionFor(q) ) =>
      \A r \in HistoryResponses(q, attendance, now) :
        /\ r.status = 200
        /\ r.total = 0 /\ r.present = 0 /\ r.absent = 0
        /\ r.records = <<>>

\* Both kinds of read have been answered empty while sessions are stored: the
\* last one sent is in resp.
EmptyHistoryWitness ==
  /\ resp.op = "history" /\ resp.status = 200 /\ resp.total = 0
  /\ note \in {"day-empty", "latest-empty"}
  /\ attendance # <<>>

\* C8: a history read without a date returns, among the stored sessions of
\* the class, the one whose normalized day is the greatest.
LatestIsGreatestDay ==
  \A q \in HistReqs :
    ( /\ Falsy(q.date)
      /\ ensureAccessToClassByName(q.className, q.user) = 200
      /\ \E i \in 1..Len(attendance) : attendance[i].className = q.className ) =>
      \A r \in HistoryResponses(q, attendance, now) :
        \E i \in 1..Len(attendance) :
          /\ attendance[i].className = q.className
          /\ \A j \in 1..Len(attendance) :
               attendance[j].className = q.className =>
                 attendance[j].dateOnlyUTC <= attendance[i].dateOnlyUTC
          /\ r = SessionBody(attendance[i])

\* A read without a date has returned the session of the greater day although
\* a session of the same class for an earlier day was stored after it.
LatestWitness ==
  /\ resp.op = "history" /\ note = "latest-found"
  /\ \E i, j \in 1..Len(attendance) :
       /\ i < j
       /\ attendance[i].className = attendance[j].className
       /\ attendance[i].dateOnlyUTC > attendance[j].dateOnlyUTC
       /\ resp.date = attendance[i].date
       /\ resp.total = Len(attendance[i].records)
       /\ resp.total # Len(attendance[j].records)

\* C23: a successful save, whether it creates the session or replaces its
\* records, leaves the session of its class and day with date equal to the
\* instant of the save, and with dateOnlyUTC equal to the start of that day.
SaveStampsInstant ==
  \A req \in SaveReqs : \A out \in SaveOutcomes(req, attendance, now) :
    out.status = 200 =>
      \A i \in 1..Len(out.attendance) :
        (out.attendance[i].className = req.className
           /\ out.attendance[i].dateOnlyUTC = out.day) =>
          /\ out.attendance[i].date = now
          /\ out.attendance[i].dateOnlyUTC = startOfUTC(req.date, now)

\* The stored sessions other than the one keyed (className, day), in order.
OtherSessions(att, className, day) ==
  SelectSeq(att, LAMBDA s : ~(s.className = className /\ s.dateOnlyUTC = day))

\* C24: a save for class c and day d, whatever it answers, leaves every
\* stored session of another class and every session of c for another day
\* as it was: same documents, same marks, none added and none removed.
SaveChangesOnlyItsSession ==
  \A req \in SaveReqs : \A out \in SaveOutcomes(req, attendance, now) :
    OtherSessions(out.attendance, req.className, out.day)
      = OtherSessions(attendance, req.className, out.day)

\* A save has just replaced the marks of a session while a second session,
\* of another class or another day, holds marks of its own.
SaveFrameWitness ==
  /\ resp.op = "save" /\ resp.status = 200
  /\ note \in {"replaced", "dropped"}
  /\ Len(attendance) = 2
  /\ attendance[1].records # <<>> /\ attendance[2].records # <<>>
  /\ attendance[1].records # attendance[2].records

(***************************************************************************)
(* SpecValid: saves of well- and ill-formed records against a roster that  *)
(* PUT /students/:id and DELETE /students/:id change.                      *)
(***************************************************************************)
ClassIds == {"c1", "c2"}

\* Class.findById(id)
FindClassById(id) ==
  LET idx == {i \in 1..Len(classes) : classes[i]._id = id}
  IN  IF idx = {} THEN NoClass ELSE classes[FirstIndex(idx)]

\* The status the guard shared by PUT and DELETE /students/:id ends with:
\* reading cls.teacher of a class that is gone throws, which the handler's
\* catch answers 400.
StudentGuard(sid, user) ==
  LET cls == FindClassById(StudentClass(sid))
  IN  IF ~IsValidObjectId(sid) THEN 400
      ELSE IF StudentClass(sid) = Gone THEN 404
      ELSE IF cls = NoClass THEN 400
      ELSE IF cls.teacher # user.id /\ user.role # "admin" THEN 403
      ELSE 200

\* PUT /students/:id with body { classId }
UpdateStudent(sid, classId, user) ==
  LET st == StudentGuard(sid, user)
  IN  /\ students' = IF st = 200 THEN [students EXCEPT ![sid] = classId] ELSE students
      /\ resp' = [op |-> "putStudent", status |-> st] @@ NoBody
      /\ note' = ""
      /\ UNCHANGED <<classes, attendance, now, procs, norm, users, profile>>

\* DELETE /students/:id
DeleteStudent(sid, user) ==
  LET st == StudentGuard(sid, user)
  IN  /\ students' = IF st = 200 THEN [students EXCEPT ![sid] = Gone] ELSE students
      /\ resp' = [op |-> "deleteStudent", status |-> st] @@ NoBody
      /\ note' = ""
      /\ UNCHANGED <<classes, attendance, now, procs, norm, users, profile>>

ValidLists ==
  { <<s1P>>, <<s2A>>, <<s1P, s3P>>, <<s3P>>, <<s1A, s1P>>,
    <<Mark("s1", "Late")>>, <<s2A, Mark("s1", "Late")>>, <<Mark("s1", "")>>,
    <<Mark("", "Present")>>, <<Mark("bad!", "Present")>>, <<Mark("s9", "Present")>> }
ValidDates == { IsoDate(2025, 11, 10, 0), BadDate }
ValidNames == {"8A", "9Z"}
ValidUsers == {Teacher1, Teacher2}
\* attendanceRoutes mounts the handlers with or without authMiddleware
ValidSaveUsers == ValidUsers \cup {NoUser}

ValidSaveReqs ==
  [className : ValidNames, date : ValidDates, isArray : {TRUE}, records : ValidLists,
   user : ValidSaveUsers]

NextValid ==
  \/ \E req \in ValidSaveReqs : SaveAttendance(req)
  \/ \E sid \in StudentIds \cup {"s9"}, c \in ClassIds, u \in ValidUsers :
       UpdateStudent(sid, c, u)
  \/ \E sid \in StudentIds, u \in ValidUsers : DeleteStudent(sid, u)

SpecValid == Init /\ [][NextValid]_vars

StatusEnum == {"Present", "Absent"}

\* C9: a save in which a record's status is neither Present nor Absent is
\* answered 400 and stores nothing, so every mark of every stored session is
\* Present or Absent.
StatusValidated ==
  \A i \in 1..Len(attendance) : \A k \in 1..Len(attendance[i].records) :
    attendance[i].records[k].status \in StatusEnum

\* C10: a save for class c in which a record names a student who does not
\* exist or is not of class c is answered 400 and stores nothing; a save that
\* succeeds writes only marks of students who are of class c when checked.
MembershipChecked ==
  \A req \in ValidSaveReqs :
    ensureAccessToClassByName(req.className, req.user) = 200 =>
      LET cls == FindClassByName(req.className)
          strangers == {k \in 1..Len(req.records) :
                          StudentClass(req.records[k].studentId) # cls._id}
      IN  \A out \in SaveOutcomes(req, attendance, now) :
            /\ strangers # {} => out.status = 400 /\ out.attendance = attendance
            /\ out.status = 200 => strangers = {}

\* A save naming a student of another class, and one naming a student that
\* is gone, are answered 400 while a session is stored.
MembershipWitness ==
  /\ resp.op = "save" /\ resp.status = 400
  /\ note \in {"notInClass", "notFound"}
  /\ attendance # <<>>

\* C26: after any sequence of saves, no stored session holds two marks of
\* one student.
MarksOfDistinctStudents ==
  \A i \in 1..Len(attendance) :
    \A j, k \in 1..Len(attendance[i].records) :
      attendance[i].records[j].studentId = attendance[i].records[k].studentId => j = k

\* C25: after any sequence of saves, every history response that carries
\* marks has total = present + absent.
HistoryCountsAddUp ==
  \A q \in [className : ValidNames, date : {NoDate} \cup ValidDates, user : ValidUsers] :
    \A r \in HistoryResponses(q, attendance, now) :
      r.total > 0 => r.total = r.present + r.absent

(***************************************************************************)
(* SpecConc: two saveAttendance calls in flight.  A call runs from one     *)
(* await to the next in one step; the storage engine serves the upsert in  *)
(* two, the query for the day's document and then the write.               *)
(***************************************************************************)
\* Whether the index on { className, dateOnlyUTC } is declared unique.
AttendanceIndexUnique == FALSE

Finish(p, st, why) ==
  /\ procs' = [procs EXCEPT ![p].pc = "done", ![p].status = st]
  /\ resp' = [op |-> "save", status |-> st] @@ NoBody
  /\ note' = why

\* The required-fields check and ensureAccessToClassByName.
SaveAccess(p, req) ==
  LET access == ensureAccessToClassByName(req.className, req.user)
  IN  /\ procs[p].pc = "idle"
      /\ IF req.className = "" \/ ~req.isArray
         THEN Finish(p, 400, "missing")
         ELSE IF access # 200
         THEN procs' = [procs EXCEPT ![p] = [IdleProc EXCEPT !.pc = "done", !.req = req,
                                                           !.status = access,
                                                           !.log = <<"guard-refused">>]]
              /\ resp' = [op |-> "save", status |-> access] @@ NoBody
              /\ note' = "access"
         ELSE procs' = [procs EXCEPT ![p] = [IdleProc EXCEPT !.pc = "students", !.req = req,
                                                           !.log = <<"guard-ok">>]]
              /\ UNCHANGED <<resp, note>>
      /\ UNCHANGED <<classes, students, attendance, now, norm, users, profile>>

\* The first validation loop, startOfUTC(date || Date.now()) and Student.find.
SaveFindStudents(p) ==
  LET recs == procs[p].req.records
  IN  /\ procs[p].pc = "students"
      /\ IF \E i \in 1..Len(recs) : BadShape(recs[i])
         THEN Finish(p, 400, "shape")
         ELSE /\ procs' = [procs EXCEPT ![p].pc = "members",
                                        ![p].day = startOfUTC(procs[p].req.date, now),
                                        ![p].roster = FindStudents(recs),
                                        ![p].log = Append(@, "Student")]
              /\ UNCHANGED <<resp, note>>
      /\ UNCHANGED <<classes, students, attendance, now, norm, users, profile>>

\* The second validation loop, over the students read before.
SaveCheckMembers(p) ==
  LET recs == procs[p].req.records
      cls == FindClassByName(procs[p].req.className)
      member == {i \in 1..Len(recs) : NotMember(recs[i], procs[p].roster, cls)}
  IN  /\ procs[p].pc = "members"
      /\ IF member # {}
         THEN Finish(p, 400, IF procs[p].roster[recs[FirstIndex(member)].studentId] = Gone
                             THEN "notFound" ELSE "notInClass")
         ELSE IF procs[p].day = NaN
         THEN Finish(p, 500, "cast")
         ELSE procs' = [procs EXCEPT ![p].pc = "upsert"] /\ UNCHANGED <<resp, note>>
      /\ UNCHANGED <<classes, students, attendance, now, norm, users, profile>>

\* The upsert's query: the day's document, or none.
UpsertFind(p) ==
  LET m == Matches(attendance, procs[p].req.className, procs[p].day)
  IN  /\ procs[p].pc = "upsert"
      /\ \E i \in (IF m = {} THEN {0} ELSE m) :
           procs' = [procs EXCEPT ![p].pc = "write", ![p].match = i,
                                  ![p].log = Append(@, "Attendance")]
      /\ UNCHANGED <<classes, students, attendance, now, resp, note, norm, users, profile>>

\* The upsert's write: the document found is set; when none was found one is
\* inserted, unless a unique index refuses the duplicate and the write is
\* retried as an update.
UpsertWrite(p) ==
  LET req == procs[p].req
      doc == SessionDoc(req.className, procs[p].day, req.records)
      m == Matches(attendance, req.className, procs[p].day)
      i == procs[p].match
  IN  /\ procs[p].pc = "write"
      /\ IF i # 0
         THEN attendance' = [attendance EXCEPT ![i] = doc]
              /\ note' = WriteNote(attendance[i].records, req.records)
         ELSE IF AttendanceIndexUnique /\ m # {}
         THEN \E j \in m : attendance' = [attendance EXCEPT ![j] = doc]
                           /\ note' = WriteNote(attendance[j].records, req.records)
         ELSE /\ Len(attendance) < MaxSessions
              /\ attendance' = Append(attendance, doc)
              /\ note' = "created"
      /\ procs' = [procs EXCEPT ![p].pc = "done", ![p].status = 200,
                                 ![p].log = Append(@, "Attendance")]
      /\ resp' = [op |-> "save", status |-> 200] @@ NoBody
      /\ UNCHANGED <<classes, students, now, norm, users, profile>>

ConcReqs ==
  [className : {"8A", "8B"}, date : {IsoDate(2025, 11, 10, 0), IsoDate(2025, 11, 10, 1)},
   isArray : {TRUE}, records : {<<s1P, s2A>>, <<s1A>>}, user : {Teacher1}]

NextConc ==
  \/ \E p \in ProcIds, req \in ConcReqs : SaveAccess(p, req)
  \/ \E p \in ProcIds : SaveFindStudents(p)
  \/ \E p \in ProcIds : SaveCheckMembers(p)
  \/ \E p \in ProcIds : UpsertFind(p)
  \/ \E p \in ProcIds : UpsertWrite(p)

SpecConc == Init /\ [][NextConc]_vars

\* C2: two saves for the same class and the same UTC day, answered 200 and
\* overlapping in time while no session of that day exists, leave exactly one
\* session for that class and day.
OverlappingSavesOneSession ==
  \A p, q \in ProcIds :
    ( /\ p # q
      /\ procs[p].pc = "done" /\ procs[p].status = 200
      /\ procs[q].pc = "done" /\ procs[q].status = 200
      /\ procs[p].req.className = procs[q].req.className
      /\ procs[p].day = procs[q].day ) =>
      Cardinality(Matches(attendance, procs[p].req.className, procs[p].day)) = 1

(***************************************************************************)
(* SpecDay: startOfUTC applied to a pair of timestamps, and to its own     *)
(* result.                                                                 *)
(***************************************************************************)
DayInputs ==
  { NumDate(0), NumDate(1), IsoDate(1970, 1, 1, 1), IsoDate(1970, 1, 2, 0),
    IsoDate(2025, 11, 10, 0), IsoDate(2025, 11, 10, 1), IsoDate(2025, 11, 11, 0),
    NumDate(Today * TicksPerDay + 1),
    IsoDate(50, 6, 15, 0), IsoDate(50, 6, 15, 1), IsoDate(1950, 6, 15, 0) }

InitDay ==
  /\ Init!1 /\ Init!2 /\ Init!3 /\ Init!4 /\ Init!5 /\ Init!6 /\ Init!7
  /\ Init!9 /\ Init!10
  /\ norm \in {[NoNorm EXCEPT !.a = x, !.b = y] : x \in DayInputs, y \in DayInputs}

Normalize ==
  /\ ~norm.done
  /\ norm' = [norm EXCEPT !.ca = startOfUTC(norm.a, now),
                          !.cb = startOfUTC(norm.b, now),
                          !.cca = startOfUTC(DateObj(startOfUTC(norm.a, now)), now),
                          !.done = TRUE]
  /\ UNCHANGED <<classes, students, attendance, now, resp, note, procs, users, profile>>

NextDay == Normalize \/ Tick

SpecDay == InitDay /\ [][NextDay]_vars

\* C5: startOfUTC sends two timestamps of one UTC calendar date to the same
\* canonical day, the midnight that begins that date; sends timestamps of
\* different UTC dates to different canonical days; and is idempotent.
SameDayClaim ==
  norm.done =>
    LET ta == TimeValue(norm.a)
        tb == TimeValue(norm.b)
    IN  /\ Day(ta) = Day(tb) => norm.ca = norm.cb /\ norm.ca = Day(ta) * TicksPerDay
        /\ Day(ta) # Day(tb) => norm.ca # norm.cb
        /\ norm.cca = norm.ca

(***************************************************************************)
(* getAttendanceByClass                                                    *)
(***************************************************************************)
\* The orders in which a sort of the set S by key may return its members:
\* ascending by key, members of equal key in any order.
SortedBy(S, key) ==
  {s \in [1..Cardinality(S) -> S] :
     /\ \A a, b \in 1..Cardinality(S) : s[a] = s[b] => a = b
     /\ \A a, b \in 1..Cardinality(S) : a < b => key[s[a]] <= key[s[b]]}

\* Attendance.find({ className }).sort({ dateOnlyUTC: -1 }): the sessions of
\* the class, later days first.
SessionsOfClass(att, className) ==
  LET cs == {i \in 1..Len(att) : att[i].className = className}
      newestFirst == [i \in cs |-> 0 - att[i].dateOnlyUTC]
  IN  {[k \in 1..Cardinality(cs) |-> att[s[k]]] : s \in SortedBy(cs, newestFirst)}

\* The responses getAttendanceByClass may send: the status and the sessions
\* of the body.
ByClassResponses(q, att) ==
  LET access == ensureAccessToClassByName(q.className, q.user)
  IN  IF q.className = "" THEN {[status |-> 400, sessions |-> <<>>]}
      ELSE IF access # 200 THEN {[status |-> access, sessions |-> <<>>]}
      ELSE {[status |-> 200, sessions |-> ss] : ss \in SessionsOfClass(att, q.className)}

GetAttendanceByClass(q) ==
  \E r \in ByClassResponses(q, attendance) :
    /\ resp' = [op |-> "byClass", status |-> r.status, total |-> Len(r.sessions)] @@ NoBody
    /\ note' = IF r.status = 200 THEN "sessions" ELSE "error"
    /\ UNCHANGED <<classes, students, attendance, now, procs, norm, users, profile>>

(***************************************************************************)
(* getMonthlyAttendance                                                    *)
(***************************************************************************)
\* The name of each Student document, and the order of names under the
\* collection's (binary) collation.
StudentName == [s \in StudentIds |-> IF s = "s2" THEN "Ravi" ELSE "Asha"]
NameRank(name) == IF name = "Asha" THEN 1 ELSE 2

\* parseInt(text, 10) of the query texts in use: the leading digits, or NaN.
ParseInt(text) ==
  CASE text = "2025" -> 2025
    [] text = "50" -> 50
    [] text = "2" -> 2
    [] text = "10" -> 10
    [] text = "11" -> 11
    [] text = "11th" -> 11
    [] text = "12" -> 12
    [] text = "13" -> 13
    [] OTHER -> NaN

\* new Date(y, m, 0).getDate(): the last date of month m (1..12) of year y,
\* a year in 0..99 meaning 1900 + y.
DaysInMonth(y, m) ==
  LET yr == IF y >= 0 /\ y <= 99 THEN 1900 + y ELSE y
  IN  CivilFromDays(DaysFromCivil(yr, m + 1, 1) - 1).d

\* A query that returns every student, whatever the class.
RosterOf_all(classId) ==
  LET byName == [sid \in StudentIds |-> NameRank(StudentName[sid])]
  IN  SortedBy(StudentIds, byName)

\* Student.find({ classId }).sort({ name: 1 }): the orders the students of
\* the class may be returned in.
RosterOf(classId) ==
  LET members == {sid \in StudentIds : students[sid] = classId}
      byName == [sid \in members |-> NameRank(StudentName[sid])]
  IN  SortedBy(members, byName)

\* Attendance.find({ className, dateOnlyUTC: { $gte: startUTC, $lt: endUTC } })
MonthSessions(att, className, startUTC, endUTC) ==
  SelectSeq(att, LAMBDA a : /\ a.className = className
                            /\ a.dateOnlyUTC >= startUTC
                            /\ a.dateOnlyUTC < endUTC)

\* perStudentDayStatus: student id -> (date of the month -> status), filled
\* from the sessions and their records in order, a later mark overwriting an
\* earlier one of the same student and date.
PerStudentDayStatus(sessions) ==
  LET dayOf == [i \in 1..Len(sessions) |-> UTCFields(sessions[i].dateOnlyUTC).date]
      marks == UNION {{<<i, k>> : k \in 1..Len(sessions[i].records)} :
                        i \in 1..Len(sessions)}
      sidOf(h) == sessions[h[1]].records[h[2]].studentId
      last(hits) == CHOOSE h \in hits :
                      \A g \in hits : g[1] < h[1] \/ (g[1] = h[1] /\ g[2] <= h[2])
  IN  [sid \in {sidOf(h) : h \in marks} |->
         [d \in {dayOf[h[1]] : h \in {g \in marks : sidOf(g) = sid}} |->
            LET h == last({g \in marks : sidOf(g) = sid /\ dayOf[g[1]] = d})
            IN  sessions[h[1]].records[h[2]].status]]

\* A count of every recorded cell, whatever its status.
CountCells_recorded(daily, st) == Cardinality({d \in 1..Len(daily) : daily[d] # "NA"})

CountCells(daily, st) == Cardinality({d \in 1..Len(daily) : daily[d] = st})

\* One row of the matrix: dayMap[d] || "NA" for every date, and the counts.
MonthlyRow(lookup, sid, daysInMonth) ==
  LET daily == [d \in 1..daysInMonth |->
                  IF sid \in DOMAIN lookup /\ d \in DOMAIN lookup[sid]
                  THEN lookup[sid][d] ELSE "NA"]
  IN  [studentId |-> sid, name |-> StudentName[sid], daily |-> daily,
       present |-> CountCells(daily, "Present"), absent |-> CountCells(daily, "Absent")]

\* The cells of this status in all rows of a matrix.
CountRows(rows, st) ==
  Cardinality(UNION {{<<k, d>> : d \in {e \in 1..Len(rows[k].daily) : rows[k].daily[e] = st}} :
                       k \in 1..Len(rows)})

MonthlyError(st) == [status |-> st, year |-> 0, month |-> 0, days |-> 0, students |-> <<>>]

\* The responses getMonthlyAttendance may send for the query q: the status
\* and, of the body, year, month, the number of days and the rows.
MonthlyResponses(q, att) ==
  LET access == ensureAccessToClassByName(q.className, q.user)
      y == ParseInt(q.year)
      m == ParseInt(q.month)
      cls == FindClassByName(q.className)
      sessions == MonthSessions(att, q.className, DateUTC(y, m - 1, 1), DateUTC(y, m, 1))
      lookup == PerStudentDayStatus(sessions)
  IN  IF q.className = "" \/ q.year = "" \/ q.month = "" THEN {MonthlyError(400)}
      ELSE IF access # 200 THEN {MonthlyError(access)}
      ELSE IF y = NaN \/ m = NaN \/ m < 1 \/ m > 12 THEN {MonthlyError(400)}
      ELSE IF cls = NoClass THEN {MonthlyError(404)}
      ELSE {[status |-> 200, year |-> y, month |-> m, days |-> DaysInMonth(y, m),
             students |-> [k \in 1..Len(roster) |->
                             MonthlyRow(lookup, roster[k], DaysInMonth(y, m))]] :
              roster \in RosterOf(cls._id)}

GetMonthlyAttendance(q) ==
  \E r \in MonthlyResponses(q, attendance) :
    /\ resp' = [op |-> "monthly", status |-> r.status, total |-> Len(r.students),
                present |-> CountRows(r.students, "Present"),
                absent |-> CountRows(r.students, "Absent")] @@ NoBody
    /\ note' = IF r.status = 200 THEN "matrix" ELSE "error"
    /\ UNCHANGED <<classes, students, attendance, now, procs, norm, users, profile>>

(***************************************************************************)
(* SpecAccess: the four attendance routes as the router mounts them,       *)
(* called by every kind of caller with well- and ill-formed requests.      *)
(***************************************************************************)
Student1 == [id |-> "u7", role |-> "student"]

\* Whether the router puts authMiddleware in front of the handlers.
AuthMiddlewareMounted == FALSE

\* authMiddleware answers 401 to a request without a valid bearer token.
Unauthorized(user) == AuthMiddlewareMounted /\ user = NoUser

Reject401(op) ==
  /\ resp' = [op |-> op, status |-> 401] @@ NoBody
  /\ note' = "noToken"
  /\ UNCHANGED <<classes, students, attendance, now, procs, norm, users, profile>>

PostSave(req) == IF Unauthorized(req.user) THEN Reject401("save") ELSE SaveAttendance(req)
GetHistory(q) == IF Unauthorized(q.user) THEN Reject401("history") ELSE GetAttendanceHistory(q)
GetByClass(q) == IF Unauthorized(q.user) THEN Reject401("byClass") ELSE GetAttendanceByClass(q)
GetMonthly(q) == IF Unauthorized(q.user) THEN Reject401("monthly") ELSE GetMonthlyAttendance(q)

\* What the router lets through to the handlers, as pure outcomes.
RoutedSave(req, att, clock) ==
  IF Unauthorized(req.user)
  THEN {[status |-> 401, note |-> "noToken", attendance |-> att, day |-> NaN]}
  ELSE SaveOutcomes(req, att, clock)
RoutedHistory(q, att, clock) ==
  IF Unauthorized(q.user) THEN {ErrorBody(401)} ELSE HistoryResponses(q, att, clock)
RoutedByClass(q, att) ==
  IF Unauthorized(q.user) THEN {[status |-> 401, sessions |-> <<>>]}
  ELSE ByClassResponses(q, att)
RoutedMonthly(q, att) ==
  IF Unauthorized(q.user) THEN {MonthlyError(401)} ELSE MonthlyResponses(q, att)

AccessUsers == {Admin, Teacher1, Teacher2, Student1, NoUser}
AccessNames == {"8A", "9Z", ""}
AccessSaveReqs ==
  {req \in [className : AccessNames,
            date : {IsoDate(2025, 11, 10, 0), IsoDate(2025, 11, 11, 0), BadDate},
            isArray : BOOLEAN, records : {<<>>, <<s1P, s2A>>, <<s1A>>, <<s3P>>},
            user : AccessUsers] :
     ~req.isArray => req.records = <<>>}
AccessHistReqs ==
  [className : AccessNames, date : {NoDate, IsoDate(2025, 11, 10, 1)}, user : AccessUsers]
AccessClassReqs == [className : AccessNames, user : AccessUsers]
AccessMonthReqs ==
  [className : AccessNames, year : {"", "2025"}, month : {"", "11", "11th", "13"},
   user : AccessUsers]

NextAccess ==
  \/ \E req \in AccessSaveReqs : PostSave(req)
  \/ \E q \in AccessHistReqs : GetHistory(q)
  \/ \E q \in AccessClassReqs : GetByClass(q)
  \/ \E q \in AccessMonthReqs : GetMonthly(q)

SpecAccess == Init /\ [][NextAccess]_vars

\* C11: a save whose className is missing, whose records is missing, or
\* whose records is an empty array is answered 400 and creates or changes no
\* session.
MissingFieldsRejected ==
  \A req \in AccessSaveReqs :
    (req.className = "" \/ ~req.isArray \/ req.records = <<>>) =>
      \A out \in RoutedSave(req, attendance, now) :
        out.status = 400 /\ out.attendance = attendance

\* C12: every save that ends with an error response (400, 403, 404 or 500)
\* leaves the whole attendance store as it was before the call.
ErrorSaveChangesNothing ==
  [][(resp'.op = "save" /\ resp'.status # 200) => attendance' = attendance]_vars

\* A save has failed at the last step before the upsert (the day's cast)
\* while a session was stored.
ErrorSaveWitness ==
  /\ resp.op = "save" /\ resp.status = 500 /\ note = "cast"
  /\ attendance # <<>>

\* The caller is a teacher, the class exists and another teacher owns it.
NotOwner(user, className) ==
  /\ user # NoUser /\ user.role = "teacher"
  /\ FindClassByName(className) # NoClass
  /\ FindClassByName(className).teacher # user.id

StudentRoleForbidden ==
  /\ \A req \in AccessSaveReqs : req.user = Student1 =>
       \A out \in RoutedSave(req, attendance, now) :
         out.status # 200 /\ out.attendance = attendance
  /\ \A q \in AccessHistReqs : q.user = Student1 =>
       \A r \in RoutedHistory(q, attendance, now) : r.status # 200
  /\ \A q \in AccessClassReqs : q.user = Student1 =>
       \A r \in RoutedByClass(q, attendance) : r.status # 200
  /\ \A q \in AccessMonthReqs : q.user = Student1 =>
       \A r \in RoutedMonthly(q, attendance) : r.status # 200

\* C15: a request to any of the four endpoints that carries no valid
\* identity never reads a session and never writes one.
IdentityRequired ==
  /\ \A req \in AccessSaveReqs : req.user = NoUser =>
       \A out \in RoutedSave(req, attendance, now) :
         out.status # 200 /\ out.attendance = attendance
  /\ \A q \in AccessHistReqs : q.user = NoUser =>
       \A r \in RoutedHistory(q, attendance, now) : r.status # 200
  /\ \A q \in AccessClassReqs : q.user = NoUser =>
       \A r \in RoutedByClass(q, attendance) : r.status # 200
  /\ \A q \in AccessMonthReqs : q.user = NoUser =>
       \A r \in RoutedMonthly(q, attendance) : r.status # 200

\* The query texts that are written as an integer.
IsIntegerText(text) == text \in {"2025", "50", "2", "10", "11", "12", "13"}

\* C21: for a caller the guard lets through and a class name that is given,
\* a monthly request whose year is not an integer or whose month is not an
\* integer in 1..12 is answered 400 without a matrix, one whose class name
\* resolves to no class is answered 404 without a matrix, and every other
\* one is answered 200 with a matrix.
MonthlyValidation ==
  \A q \in AccessMonthReqs :
    (q.className # "" /\ ensureAccessToClassByName(q.className, q.user) = 200) =>
      \A r \in RoutedMonthly(q, attendance) :
        IF \/ ~IsIntegerText(q.year) \/ ~IsIntegerText(q.month)
           \/ ParseInt(q.month) < 1 \/ ParseInt(q.month) > 12
        THEN r.status = 400 /\ r.students = <<>>
        ELSE IF FindClassByName(q.className) = NoClass
        THEN r.status = 404 /\ r.students = <<>>
        ELSE r.status = 200 /\ r.students # <<>>

(***************************************************************************)
(* SpecOrder: the four handlers in flight, one step per await, each call   *)
(* logging its guard and the collections it touches.                       *)
(***************************************************************************)
\* Where a handler goes after awaiting ensureAccessToClassByName: on, or to
\* its catch when the guard has thrown.
AfterAccess_always(access, next) == next

AfterAccess(access, next) == IF access = 200 THEN next ELSE "done"

\* A call leaves its guard: the handler goes on, or answers the guard's status.
Guarded(p, op, q, next) ==
  LET access == ensureAccessToClassByName(q.className, q.user)
      pc == AfterAccess(access, next)
  IN  /\ procs' = [procs EXCEPT ![p] =
                     [IdleProc EXCEPT !.pc = pc, !.req = q,
                                      !.status = IF pc = "done" THEN access ELSE 0,
                                      !.log = <<IF access = 200 THEN "guard-ok"
                                                ELSE "guard-refused">>]]
      /\ IF pc = "done"
         THEN resp' = [op |-> op, status |-> access] @@ NoBody /\ note' = "access"
         ELSE UNCHANGED <<resp, note>>

Answered(p, op, st, why) ==
  /\ procs' = [procs EXCEPT ![p].pc = "done", ![p].status = st]
  /\ resp' = [op |-> op, status |-> st] @@ NoBody
  /\ note' = why

\* getAttendanceHistory up to its guard, and its findOne and response.
HistoryAccess(p, q) ==
  /\ procs[p].pc = "idle"
  /\ IF q.className = ""
     THEN Answered(p, "history", 400, "error")
     ELSE Guarded(p, "history", q, "h-find")
  /\ UNCHANGED <<classes, students, attendance, now, norm, users, profile>>

HistoryFind(p) ==
  /\ procs[p].pc = "h-find"
  /\ \E r \in HistoryResponses(procs[p].req, attendance, now) :
       /\ procs' = [procs EXCEPT ![p].pc = "done", ![p].status = r.status,
                                 ![p].log = Append(@, "Attendance")]
       /\ resp' = [op |-> "history", status |-> r.status, date |-> r.date,
                   total |-> r.total, present |-> r.present, absent |-> r.absent]
       /\ note' = r.note
  /\ UNCHANGED <<classes, students, attendance, now, norm, users, profile>>

\* getAttendanceByClass up to its guard, and its find and response.
ByClassAccess(p, q) ==
  /\ procs[p].pc = "idle"
  /\ IF q.className = ""
     THEN Answered(p, "byClass", 400, "error")
     ELSE Guarded(p, "byClass", q, "c-find")
  /\ UNCHANGED <<classes, students, attendance, now, norm, users, profile>>

ByClassFind(p) ==
  /\ procs[p].pc = "c-find"
  /\ \E ss \in SessionsOfClass(attendance, procs[p].req.className) :
       /\ procs' = [procs EXCEPT ![p].pc = "done", ![p].status = 200,
                                 ![p].log = Append(@, "Attendance")]
       /\ resp' = [op |-> "byClass", status |-> 200, total |-> Len(ss)] @@ NoBody
       /\ note' = "sessions"
  /\ UNCHANGED <<classes, students, attendance, now, norm, users, profile>>

\* getMonthlyAttendance: the required parameters and the guard; parseInt and
\* Class.findOne; Student.find; Attendance.find and the matrix.
MonthlyAccess(p, q) ==
  /\ procs[p].pc = "idle"
  /\ IF q.className = "" \/ q.year = "" \/ q.month = ""
     THEN Answered(p, "monthly", 400, "error")
     ELSE Guarded(p, "monthly", q, "m-class")
  /\ UNCHANGED <<classes, students, attendance, now, norm, users, profile>>

MonthlyFindClass(p) ==
  LET y == ParseInt(procs[p].req.year)
      m == ParseInt(procs[p].req.month)
  IN  /\ procs[p].pc = "m-class"
      /\ IF y = NaN \/ m = NaN \/ m < 1 \/ m > 12
         THEN Answered(p, "monthly", 400, "error")
         ELSE IF FindClassByName(procs[p].req.className) = NoClass
         THEN Answered(p, "monthly", 404, "error")
         ELSE procs' = [procs EXCEPT ![p].pc = "m-students"] /\ UNCHANGED <<resp, note>>
      /\ UNCHANGED <<classes, students, attendance, now, norm, users, profile>>

MonthlyFindStudents(p) ==
  /\ procs[p].pc = "m-students"
  /\ \E roster \in RosterOf(FindClassByName(procs[p].req.className)._id) :
       procs' = [procs EXCEPT ![p].pc = "m-sessions", ![p].roster = roster,
                              ![p].log = Append(@, "Student")]
  /\ UNCHANGED <<classes, students, attendance, now, resp, note, norm, users, profile>>

MonthlyFindSessions(p) ==
  /\ procs[p].pc = "m-sessions"
  /\ procs' = [procs EXCEPT ![p].pc = "done", ![p].status = 200,
                            ![p].log = Append(@, "Attendance")]
  /\ resp' = [op |-> "monthly", status |-> 200, total |-> Len(procs[p].roster)] @@ NoBody
  /\ note' = "matrix"
  /\ UNCHANGED <<classes, students, attendance, now, norm, users, profile>>

OrderUsers == {Teacher1, Teacher2}
OrderSaveReqs ==
  [className : {"8A"}, date : {IsoDate(2025, 11, 10, 0)}, isArray : {TRUE},
   records : {<<s1P, s2A>>, <<s3P>>}, user : OrderUsers]
OrderHistReqs == [className : {"8A"}, date : {NoDate}, user : OrderUsers]
OrderClassReqs == [className : {"8A", ""}, user : OrderUsers]
OrderMonthReqs == [className : {"8A"}, year : {"2025"}, month : {"11", "13", ""}, user : OrderUsers]

NextOrder ==
  \/ \E p \in ProcIds, req \in OrderSaveReqs : SaveAccess(p, req)
  \/ \E p \in ProcIds : SaveFindStudents(p)
  \/ \E p \in ProcIds : SaveCheckMembers(p)
  \/ \E p \in ProcIds : UpsertFind(p)
  \/ \E p \in ProcIds : UpsertWrite(p)
  \/ \E p \in ProcIds, q \in OrderHistReqs : HistoryAccess(p, q)
  \/ \E p \in ProcIds : HistoryFind(p)
  \/ \E p \in ProcIds, q \in OrderClassReqs : ByClassAccess(p, q)
  \/ \E p \in ProcIds : ByClassFind(p)
  \/ \E p \in ProcIds, q \in OrderMonthReqs : MonthlyAccess(p, q)
  \/ \E p \in ProcIds : MonthlyFindClass(p)
  \/ \E p \in ProcIds : MonthlyFindStudents(p)
  \/ \E p \in ProcIds : MonthlyFindSessions(p)

SpecOrder == Init /\ [][NextOrder]_vars

\* C16: in every attendance operation, every read or write of Attendance or
\* Student data of a call comes after that call's ensureAccessToClassByName
\* has returned successfully.
AccessBeforeData ==
  \A p \in ProcIds :
    \A k \in 1..Len(procs[p].log) :
      procs[p].log[k] \in {"Student", "Attendance"} =>
        \E j \in 1..(k - 1) : procs[p].log[j] = "guard-ok"

\* One call has passed its guard and touched Student and Attendance, while
\* the other was refused by the guard and touched nothing.
AccessBeforeDataWitness ==
  \E p, q \in ProcIds :
    /\ procs[p].pc = "done" /\ procs[p].status = 200
    /\ procs[p].log = <<"guard-ok", "Student", "Attendance">>
    /\ procs[q].pc = "done" /\ procs[q].status = 403
    /\ procs[q].log = <<"guard-refused">>

(***************************************************************************)
(* SpecMonthly: monthly matrices over stores left by a month of saves,     *)
(* with further saves and a changing roster.                               *)
(***************************************************************************)
\* The records saved for date d of a month under each marking habit.
Pattern(pat, d) ==
  CASE pat = "marked" -> <<s1P, s2A>>
    [] pat = "partial" -> IF d % 2 = 1 THEN <<s1P, s2A>> ELSE <<s1A>>
    [] OTHER -> <<Mark("s1", "Late"), s2A>>

\* The store after class 8A was saved once for each of the first n dates
\* counted from the first of month m of year y.
Fill(y, m, n, pat) ==
  [d \in 1..n |-> SessionDoc("8A", DaysFromCivil(y, m, d) * TicksPerDay, Pattern(pat, d))]

MonthStores ==
  {<<>>} \cup
  {Fill(ym[1], ym[2], n, pat) :
     ym \in {<<2025, 2>>, <<2025, 11>>, <<1950, 11>>}, n \in {1, 28, 29, 30, 31},
     pat \in {"marked", "partial", "late"}}

InitMonthly ==
  /\ Init!1 /\ Init!2 /\ Init!4 /\ Init!5 /\ Init!6 /\ Init!7 /\ Init!8
  /\ Init!9 /\ Init!10
  /\ attendance \in MonthStores

MonthSaveReqs ==
  [className : {"8A"},
   date : {IsoDate(2025, 11, 30, 1), IsoDate(2025, 12, 1, 0), IsoDate(2025, 10, 31, 1)},
   isArray : {TRUE}, records : {<<s1A, s1P>>, <<s3P>>}, user : {Admin}]
MonthReqs ==
  [className : {"8A"}, year : {"2025", "50"}, month : {"2", "11", "12"}, user : {Admin}]

NextMonthly ==
  \/ \E req \in MonthSaveReqs : SaveAttendance(req)
  \/ \E c \in ClassIds : UpdateStudent("s3", c, Admin)
  \/ DeleteStudent("s2", Admin)
  \/ \E q \in MonthReqs : GetMonthlyAttendance(q)

SpecMonthly == InitMonthly /\ [][NextMonthly]_vars

\* The students enrolled in the class of this name.
Enrolled(className) ==
  {sid \in StudentIds : students[sid] = FindClassByName(className)._id}

\* C17: the rows of a monthly matrix are the students now enrolled in the
\* class, one row each, whatever sessions exist: with no session in the month
\* every cell of every row is NA, and a student marked in a stored session
\* but not enrolled has no row.
RowsAreRoster ==
  \A q \in MonthReqs : \A r \in MonthlyResponses(q, attendance) :
    r.status = 200 =>
      /\ Len(r.students) = Cardinality(Enrolled(q.className))
      /\ {r.students[k].studentId : k \in 1..Len(r.students)} = Enrolled(q.className)
      /\ (\A i \in 1..Len(attendance) :
            \/ attendance[i].dateOnlyUTC < DateUTC(r.year, r.month - 1, 1)
            \/ attendance[i].dateOnlyUTC >= DateUTC(r.year, r.month, 1)) =>
           \A k \in 1..Len(r.students) : \A d \in 1..r.days :
             r.students[k].daily[d] = "NA"

\* A matrix of one row has been returned for a class of one student while
\* marks of a student no longer enrolled are stored.
RowsAreRosterWitness ==
  /\ resp.op = "monthly" /\ resp.status = 200 /\ resp.total = 1
  /\ Cardinality(Enrolled("8A")) = 1
  /\ \E i \in 1..Len(attendance) : \E k \in 1..Len(attendance[i].records) :
       attendance[i].records[k].studentId \notin Enrolled("8A")

\* C18: for every row's student and every date d of the requested month,
\* the cell daily[d] is the status of that student in the stored session of
\* the class whose day is the d-th day of the requested month of the
\* requested year when such a mark exists, and NA otherwise; so a session
\* whose day lies outside the month contributes to no cell.
CellsMatchSessions ==
  \A q \in MonthReqs : \A r \in MonthlyResponses(q, attendance) :
    r.status = 200 =>
      \A k \in 1..Len(r.students) : \A d \in 1..r.days :
        LET day == DaysFromCivil(r.year, r.month, d) * TicksPerDay
            found == UNION {{attendance[i].records[j].status :
                               j \in {e \in 1..Len(attendance[i].records) :
                                        attendance[i].records[e].studentId =
                                          r.students[k].studentId}} :
                              i \in {e \in 1..Len(attendance) :
                                       /\ attendance[e].className = q.className
                                       /\ attendance[e].dateOnlyUTC = day}}
        IN  IF found = {} THEN r.students[k].daily[d] = "NA"
            ELSE r.students[k].daily[d] \in found

\* C19: in every row, present and absent count the Present and the Absent
\* cells of daily, present + absent is at most the number of days of the
\* month, and equals it only when no cell of the row is NA.
RowCountsBounded ==
  \A q \in MonthReqs : \A r \in MonthlyResponses(q, attendance) :
    r.status = 200 =>
      \A k \in 1..Len(r.students) :
        LET row == r.students[k]
        IN  /\ Len(row.daily) = r.days
            /\ row.present = Cardinality({d \in 1..r.days : row.daily[d] = "Present"})
            /\ row.absent = Cardinality({d \in 1..r.days : row.daily[d] = "Absent"})
            /\ row.present + row.absent <= r.days
            /\ row.present + row.absent = r.days =>
                 \A d \in 1..r.days : row.daily[d] # "NA"

\* A matrix of two rows over a month of 30 days has been returned in which
\* every cell of both rows is Present or Absent.
RowCountsWitness ==
  /\ resp.op = "monthly" /\ resp.status = 200 /\ resp.total = 2
  /\ resp.present + resp.absent = 60

\* C20: a monthly matrix lists its rows in ascending order of student name,
\* and two calls with the same arguments on unchanged roster and sessions
\* return identical output, also when two students of the class have the
\* same name.
MonthlyDeterministic ==
  \A q \in MonthReqs :
    \A r1, r2 \in MonthlyResponses(q, attendance) :
      /\ r1 = r2
      /\ \A a, b \in 1..Len(r1.students) :
           a < b => NameRank(r1.students[a].name) <= NameRank(r1.students[b].name)

(***************************************************************************)
(* SpecTasks: requests in flight against the Student document of user u7,  *)
(* one step per await, any awaited storage call returning or throwing.     *)
(* A call counts the responses its handler sends.                          *)
(***************************************************************************)
\* quest.rewardXP of quest q1
RewardXP == 5

IdleCall ==
  [pc |-> "idle", op |-> "", questId |-> "", sent |-> 0, status |-> 0,
   student |-> NoProfile, push |-> <<>>]

\* res.status(st).json(...): one more response sent by the call's handler.
Send(p, st) ==
  [procs EXCEPT ![p].sent = @ + 1, ![p].status = st, ![p].pc = "done"]

\* A throw inside try: the handler's catch answers st.
Caught(p, st) == procs' = Send(p, st)

\* A throw outside any try rejects the promise the async handler returned.
\* The router either drops the rejection, and the request is never answered,
\* or forwards it to the default error handler, which answers 500.
Rejected(p) ==
  procs' \in {[procs EXCEPT ![p].pc = "done"], Send(p, 500)}

\* Quest.findById(questId)
QuestExists(questId) == questId = "q1"

\* student.completedQuests.some((c) => String(c.quest) === questId)
alreadyCompleted(student, questId) ==
  \E i \in 1..Len(student.completedQuests) : student.completedQuests[i] = questId

\* POST /api/Students/tasks/:id/complete up to its first await
TaskStart(p, user, questId) ==
  /\ procs[p].pc = "idle"
  /\ profile.xp < MaxAwards * RewardXP
  /\ procs' = IF user.role # "student" THEN Send(p, 403)
              ELSE [procs EXCEPT ![p] = [IdleCall EXCEPT !.pc = "t-student", !.op = "task",
                                                          !.questId = questId]]
  /\ UNCHANGED <<classes, students, attendance, now, resp, note, norm, users, profile>>

\* await Student.findOne({ user }), then the already-completed check
TaskFindStudent(p) ==
  /\ procs[p].pc = "t-student"
  /\ \/ Caught(p, 500)
     \/ procs' = IF alreadyCompleted(profile, procs[p].questId) THEN Send(p, 400)
                 ELSE [procs EXCEPT ![p].student = profile, ![p].pc = "t-quest"]
  /\ UNCHANGED <<classes, students, attendance, now, resp, note, norm, users, profile>>

\* await Quest.findById(questId), then xp += rewardXP and the push, in memory
TaskFindQuest(p) ==
  /\ procs[p].pc = "t-quest"
  /\ \/ Caught(p, 500)
     \/ procs' = IF ~QuestExists(procs[p].questId) THEN Send(p, 404)
                 ELSE [procs EXCEPT ![p].student.xp = @ + RewardXP,
                                    ![p].push = <<procs[p].questId>>,
                                    ![p].pc = "t-save"]
  /\ UNCHANGED <<classes, students, attendance, now, resp, note, norm, users, profile>>

\* student.save(): $set of the modified xp, $push of the new entries
StudentSave(p) ==
  [xp |-> procs[p].student.xp,
   completedQuests |-> profile.completedQuests \o procs[p].push]

\* await student.save(), then the 200
TaskSave(p) ==
  /\ procs[p].pc = "t-save"
  /\ \/ Caught(p, 500) /\ UNCHANGED profile
     \/ profile' = StudentSave(p) /\ procs' = Send(p, 200)
  /\ UNCHANGED <<classes, students, attendance, now, resp, note, norm, users>>

\* POST /api/quests/tasks/:questId/complete up to its first await
QuestStart(p, user, questId) ==
  /\ procs[p].pc = "idle"
  /\ profile.xp < MaxAwards * RewardXP
  /\ procs' = IF user.role # "student" THEN Send(p, 403)
              ELSE [procs EXCEPT ![p] = [IdleCall EXCEPT !.pc = "q-student", !.op = "quest",
                                                          !.questId = questId]]
  /\ UNCHANGED <<classes, students, attendance, now, resp, note, norm, users, profile>>

\* await Student.findOne({ user }), outside any try
QuestFindStudent(p) ==
  /\ procs[p].pc = "q-student"
  /\ \/ Rejected(p)
     \/ procs' = [procs EXCEPT ![p].student = profile, ![p].pc = "q-quest"]
  /\ UNCHANGED <<classes, students, attendance, now, resp, note, norm, users, profile>>

\* await Quest.findById(questId), then xp += rewardXP and the push of a quest
\* that completedQuests does not include, in memory (includes taken as
\* finding every entry of the quest)
QuestFindQuest(p) ==
  /\ procs[p].pc = "q-quest"
  /\ \/ Rejected(p)
     \/ procs' = IF ~QuestExists(procs[p].questId) THEN Send(p, 404)
                 ELSE [procs EXCEPT
                         ![p].student.xp = @ + RewardXP,
                         ![p].push = IF alreadyCompleted(procs[p].student, procs[p].questId)
                                     THEN <<>> ELSE <<procs[p].questId>>,
                         ![p].pc = "q-save"]
  /\ UNCHANGED <<classes, students, attendance, now, resp, note, norm, users, profile>>

\* await student.save(), then the 200
QuestSave(p) ==
  /\ procs[p].pc = "q-save"
  /\ \/ Rejected(p) /\ UNCHANGED profile
     \/ profile' = StudentSave(p) /\ procs' = Send(p, 200)
  /\ UNCHANGED <<classes, students, attendance, now, resp, note, norm, users>>

\* GET /api/admin/dashboard-stats: res.json({ ok: true }) before the try
DashboardStart(p) ==
  /\ procs[p].pc = "idle"
  /\ procs' = [procs EXCEPT ![p] = [IdleCall EXCEPT !.pc = "d-count", !.op = "stats",
                                                     !.sent = 1, !.status = 200]]
  /\ UNCHANGED <<classes, students, attendance, now, resp, note, norm, users, profile>>

\* await Promise.all of the three counts: when they return, res.json of the
\* totals, which throws as the response has been sent, and the res.json of
\* the catch; when they throw, the res.json of the catch alone.
DashboardCount(p) ==
  /\ procs[p].pc = "d-count"
  /\ \E calls \in {1, 2} :
       procs' = [procs EXCEPT ![p].sent = @ + calls, ![p].pc = "done"]
  /\ UNCHANGED <<classes, students, attendance, now, resp, note, norm, users, profile>>

\* POST /api/attendance/save as one step: each outcome of the handler ends in
\* one res.json, and a storage call that throws ends in the one of its catch.
SaveCall(p, req) ==
  /\ procs[p].pc = "idle"
  /\ \/ \E out \in SaveOutcomes(req, attendance, now) :
          /\ Len(out.attendance) <= MaxSessions
          /\ attendance' = out.attendance
          /\ procs' = [procs EXCEPT ![p] = [IdleCall EXCEPT !.pc = "done", !.op = "save",
                                                             !.sent = 1, !.status = out.status]]
     \/ /\ attendance' = attendance
        /\ procs' = [procs EXCEPT ![p] = [IdleCall EXCEPT !.pc = "done", !.op = "save",
                                                           !.sent = 1, !.status = 500]]
  /\ UNCHANGED <<classes, students, now, resp, note, norm, users, profile>>

\* The handler has returned; the process serves the next request.
CallEnds(p) ==
  /\ procs[p].pc = "done"
  /\ procs' = [procs EXCEPT ![p] = IdleCall]
  /\ UNCHANGED <<classes, students, attendance, now, resp, note, norm, users, profile>>

InitTasks ==
  /\ Init!1 /\ Init!2 /\ Init!3 /\ Init!4 /\ Init!5 /\ Init!6 /\ Init!8
  /\ Init!9 /\ Init!10
  /\ procs = [p \in ProcIds |-> IdleCall]

\* The requests made: by a student and by a teacher, for quest q1 and for a
\* quest that does not exist; saves for a class that exists and one that
\* does not.
TaskReqs ==
  [user : {Student1, Teacher1}, questId : {"q1", "q9"},
   save : [className : {"8A", "9Z"}, date : {IsoDate(2025, 11, 10, 0)}, isArray : {TRUE},
           records : {<<s1P>>, <<s3P>>}, user : {Admin}]]

NextTasks ==
  \/ \E p \in ProcIds, r \in TaskReqs : TaskStart(p, r.user, r.questId)
  \/ \E p \in ProcIds : TaskFindStudent(p)
  \/ \E p \in ProcIds : TaskFindQuest(p)
  \/ \E p \in ProcIds : TaskSave(p)
  \/ \E p \in ProcIds, r \in TaskReqs : QuestStart(p, r.user, r.questId)
  \/ \E p \in ProcIds : QuestFindStudent(p)
  \/ \E p \in ProcIds : QuestFindQuest(p)
  \/ \E p \in ProcIds : QuestSave(p)
  \/ \E p \in ProcIds : DashboardStart(p)
  \/ \E p \in ProcIds : DashboardCount(p)
  \/ \E p \in ProcIds, r \in TaskReqs : SaveCall(p, r.save)
  \/ \E p \in ProcIds : CallEnds(p)

SpecTasks == InitTasks /\ [][NextTasks]_vars

\* C22: every handler that has returned has sent exactly one response for
\* its request, whichever of its paths it took (a refusal, a failed check, a
\* storage call that threw), and no handler sends a second one.
ExactlyOneResponse ==
  \A p \in ProcIds :
    /\ procs[p].sent <= 1
    /\ procs[p].pc = "done" => procs[p].sent = 1

\* C28: whatever completion requests for quest q1 have been served or are
\* in flight, the student has been credited rewardXP at most once and
\* completedQuests holds at most one entry for the quest.
RewardedAtMostOnce ==
  /\ profile.xp <= RewardXP
  /\ Cardinality({i \in 1..Len(profile.completedQuests) :
                    profile.completedQuests[i] = "q1"}) <= 1

(***************************************************************************)
(* SpecRename: attendance saved and read while PUT /classes/:id renames    *)
(* the classes.                                                            *)
(***************************************************************************)
\* String(req.body.name).trim()
Trim(text) == IF text = " 8C " THEN "8C" ELSE text

\* PUT /classes/:id with body { name }: cls.save() rejects an empty name,
\* which the schema requires, and the catch answers 400.
UpdateClass(id, name, user) ==
  LET cls == FindClassById(id)
      st == IF ~IsValidObjectId(id) THEN 400
            ELSE IF cls = NoClass THEN 404
            ELSE IF cls.teacher # user.id /\ user.role # "admin" THEN 403
            ELSE IF Trim(name) = "" THEN 400
            ELSE 200
  IN  /\ classes' = IF st # 200 THEN classes
                    ELSE [i \in 1..Len(classes) |->
                            IF classes[i]._id = id
                            THEN [classes[i] EXCEPT !.name = Trim(name)] ELSE classes[i]]
      /\ resp' = [op |-> "putClass", status |-> st] @@ NoBody
      /\ note' = ""
      /\ UNCHANGED <<students, attendance, now, procs, norm, users, profile>>

\* The requests made for a class, under its old name or its new one.
RenameReqs ==
  [className : {"8A", "8C"}, date : {IsoDate(2025, 11, 10, 0), IsoDate(2025, 11, 11, 0)},
   isArray : {TRUE}, records : {<<s1P>>, <<s1A, s2A>>}, user : {Admin},
   year : {"2025"}, month : {"11"}]

NextRename ==
  \/ \E req \in RenameReqs : SaveAttendance(req)
  \/ \E id \in {"c1", "c9", "bad!"}, name \in {"8A", "8C", " 8C ", ""},
        u \in {Admin, Teacher1, Teacher2} : UpdateClass(id, name, u)
  \/ \E q \in RenameReqs : GetAttendanceHistory([q EXCEPT !.date = NoDate])
  \/ \E q \in RenameReqs : GetMonthlyAttendance(q)

SpecRename == Init /\ [][NextRename]_vars

\* What an admin is shown of the class called name: the marks of the latest
\* session, and the rows of the matrix of November 2025.
ShownOfClass(name) ==
  [history |-> {r.records : r \in HistoryResponses(
                   [className |-> name, date |-> NoDate, user |-> Admin], attendance, now)},
   monthly |-> {r.students : r \in MonthlyResponses(
                   [className |-> name, year |-> "2025", month |-> "11", user |-> Admin],
                   attendance)}]

\* C27: a step that renames a class leaves what getAttendanceHistory and
\* getMonthlyAttendance return for the class, addressed by its new name, as
\* it was under the old name before the step.
RenameKeepsAttendance ==
  [][\A i \in 1..Len(classes) :
       classes'[i].name # classes[i].name =>
         ShownOfClass(classes[i].name)' = ShownOfClass(classes[i].name)]_vars

(***************************************************************************)
(* SpecRoster: students created, moved and deleted; POST /students in      *)
(* flight, one step per await.                                             *)
(***************************************************************************)
IdleCreate ==
  [pc |-> "idle", classId |-> "", user |-> NoUser, studentsLimit |-> 0, count |-> 0]

\* The response of a POST /students call, which ends the call.
Created(p, st) ==
  /\ procs' = [procs EXCEPT ![p] = IdleCreate]
  /\ resp' = [op |-> "postStudent", status |-> st] @@ NoBody
  /\ note' = ""

\* Student.countDocuments({ classId })
CountStudents(classId) == Cardinality({sid \in StudentIds : students[sid] = classId})

\* POST /students with body { name, contact, classId, enrollNo } up to its
\* first await
CreateStart(p, classId, user) ==
  /\ procs[p].pc = "idle"
  /\ IF user.role = "student" THEN Created(p, 403)
     ELSE IF classId = "" \/ ~IsValidObjectId(classId) THEN Created(p, 400)
     ELSE /\ procs' = [procs EXCEPT ![p] = [IdleCreate EXCEPT !.pc = "c-class",
                                                              !.classId = classId,
                                                              !.user = user]]
          /\ UNCHANGED <<resp, note>>
  /\ UNCHANGED <<classes, students, attendance, now, norm, users, profile>>

\* await ensureClassOwnershipOrAdmin(classId, req.user), whose throw the
\* catch answers 500
CreateFindClass(p) ==
  /\ procs[p].pc = "c-class"
  /\ LET cls == FindClassById(procs[p].classId)
     IN  IF cls = NoClass THEN Created(p, 500)
         ELSE IF cls.teacher # procs[p].user.id /\ procs[p].user.role # "admin"
         THEN Created(p, 500)
         ELSE /\ procs' = [procs EXCEPT ![p].studentsLimit = cls.studentsLimit,
                                        ![p].pc = "c-count"]
              /\ UNCHANGED <<resp, note>>
  /\ UNCHANGED <<classes, students, attendance, now, norm, users, profile>>

\* await Student.countDocuments({ classId }), then the limit check
CreateCount(p) ==
  /\ procs[p].pc = "c-count"
  /\ LET count == CountStudents(procs[p].classId)
     IN  IF procs[p].studentsLimit # 0 /\ count >= procs[p].studentsLimit
         THEN Created(p, 400)
         ELSE /\ procs' = [procs EXCEPT ![p].count = count, ![p].pc = "c-create"]
              /\ UNCHANGED <<resp, note>>
  /\ UNCHANGED <<classes, students, attendance, now, norm, users, profile>>

\* await Student.create({ ..., classId }), then the 201
CreateInsert(p) ==
  /\ procs[p].pc = "c-create"
  /\ \E sid \in StudentIds :
       /\ students[sid] = Gone
       /\ students' = [students EXCEPT ![sid] = procs[p].classId]
  /\ Created(p, 201)
  /\ UNCHANGED <<classes, attendance, now, norm, users, profile>>

InitRoster ==
  /\ Init!1 /\ Init!2 /\ Init!3 /\ Init!4 /\ Init!5 /\ Init!6 /\ Init!8
  /\ Init!9 /\ Init!10
  /\ procs = [p \in ProcIds |-> IdleCreate]

NextRoster ==
  \/ \E p \in ProcIds, c \in {"c1", "c2", "c9", ""}, u \in {Admin, Teacher1, Student1} :
       CreateStart(p, c, u)
  \/ \E p \in ProcIds : CreateFindClass(p)
  \/ \E p \in ProcIds : CreateCount(p)
  \/ \E p \in ProcIds : CreateInsert(p)
  \/ \E sid \in StudentIds, c \in ClassIds : UpdateStudent(sid, c, Admin)
  \/ \E sid \in StudentIds : DeleteStudent(sid, Admin)

SpecRoster == InitRoster /\ [][NextRoster]_vars

\* C29: no class with a positive studentsLimit has more students than its
\* limit.
LimitRespected ==
  \A i \in 1..Len(classes) :
    classes[i].studentsLimit > 0 => CountStudents(classes[i]._id) <= classes[i].studentsLimit

(***************************************************************************)
(* SpecAdmins: role changes in flight, one step per await, and account     *)
(* deletions.  A caller is the identity its token carries.                 *)
(***************************************************************************)
IdlePatch == [pc |-> "idle", caller |-> NoUser, id |-> "", role |-> ""]

\* The response of a PATCH /users/:id call, which ends the call.
Patched(p, st) ==
  /\ procs' = [procs EXCEPT ![p] = IdlePatch]
  /\ resp' = [op |-> "patchUser", status |-> st] @@ NoBody
  /\ note' = ""

\* User.countDocuments({ role: "admin" })
AdminCount == Cardinality({u \in UserIds : users[u] = "admin"})

\* PATCH /users/:id with body { role }, behind requireAdmin, up to its first
\* await
PatchStart(p, caller, id, role) ==
  /\ procs[p].pc = "idle"
  /\ IF caller.role # "admin" THEN Patched(p, 403)
     ELSE IF ~IsValidObjectId(id) THEN Patched(p, 400)
     ELSE IF role \notin {"admin", "teacher", "student"} THEN Patched(p, 400)
     ELSE IF caller.id = id /\ role # "admin" THEN Patched(p, 400)
     ELSE /\ procs' = [procs EXCEPT ![p] = [pc |-> IF role # "admin" THEN "r-count"
                                                  ELSE "r-find",
                                            caller |-> caller, id |-> id, role |-> role]]
          /\ UNCHANGED <<resp, note>>
  /\ UNCHANGED <<classes, students, attendance, now, norm, users, profile>>

\* await User.countDocuments({ role: "admin" }), then the last-admin check
PatchCount(p) ==
  /\ procs[p].pc = "r-count"
  /\ IF AdminCount <= 1 THEN Patched(p, 400)
     ELSE procs' = [procs EXCEPT ![p].pc = "r-find"] /\ UNCHANGED <<resp, note>>
  /\ UNCHANGED <<classes, students, attendance, now, norm, users, profile>>

\* await User.findById(id), user.role = role, await user.save()
PatchSave(p) ==
  /\ procs[p].pc = "r-find"
  /\ IF procs[p].id \notin UserIds \/ users[procs[p].id] = Gone
     THEN Patched(p, 404) /\ UNCHANGED users
     ELSE Patched(p, 200) /\ users' = [users EXCEPT ![procs[p].id] = procs[p].role]
  /\ UNCHANGED <<classes, students, attendance, now, norm, profile>>

\* DELETE /users/me, behind authMiddleware alone
DeleteMe(caller) ==
  /\ users' = IF caller.id \in UserIds THEN [users EXCEPT ![caller.id] = Gone] ELSE users
  /\ resp' = [op |-> "deleteMe", status |-> IF caller.id = "" THEN 401 ELSE 200] @@ NoBody
  /\ note' = ""
  /\ UNCHANGED <<classes, students, attendance, now, procs, norm, profile>>

InitAdmins ==
  /\ Init!1 /\ Init!2 /\ Init!3 /\ Init!4 /\ Init!5 /\ Init!6 /\ Init!8
  /\ Init!9 /\ Init!10
  /\ procs = [p \in ProcIds |-> IdlePatch]

\* The tokens in use: of the two admins and of the teacher.
Tokens == {Admin, [id |-> "u1", role |-> "admin"], Teacher1}

NextAdmins ==
  \/ \E p \in ProcIds, c \in Tokens, id \in UserIds \cup {"u9", "bad!"},
        role \in {"admin", "teacher", "owner"} : PatchStart(p, c, id, role)
  \/ \E p \in ProcIds : PatchCount(p)
  \/ \E p \in ProcIds : PatchSave(p)
  \/ \E c \in Tokens \cup {NoUser} : DeleteMe(c)

SpecAdmins == InitAdmins /\ [][NextAdmins]_vars

\* C30: in every state reached from one with an admin, a user of role admin
\* exists.
AdminRemains == AdminCount >= 1

====
